---- MODULE Spec2Model ----
(***************************************************************************)
(* Durable crawl queue of the logeon scraper: the scrape_queue and lemmas  *)
(* tables of src/src/database.py, the drain loop of src/src/scraper.py     *)
(* (resume_scraping / retry_failed) run by concurrent workers, the second  *)
(* drain loop run with its worker scrape_lemma_page, the batches of        *)
(* process_letter, and the request pacing of _wait_for_delay.              *)
(*                                                                         *)
(* Every SQL statement is one atomic step; the awaits between two          *)
(* statements of one method are points where other workers may run.        *)
(***************************************************************************)
EXTENDS Integers, Sequences, FiniteSets, TLC

(***************************************************************************)
(* Bounds of the model.                                                    *)
(***************************************************************************)
MaxUrls == 2
NumWorkers == 2
MaxClock == 1
NumCallers == 2
MaxDelay == 2
MaxTime == 6
MaxLemmas == 4
MaxKeys == 2

Urls == 1..MaxUrls
Workers == 1..NumWorkers
Callers == 1..NumCallers

(***************************************************************************)
(* Program constants.                                                      *)
(***************************************************************************)
STATUS_PENDING == "pending"
STATUS_PROCESSING == "processing"
STATUS_COMPLETED == "completed"
STATUS_FAILED == "failed"

\* the literal 3 of "retry_count < 3" in get_next_url
RETRY_LIMIT == 3

\* CONCURRENCY = 3  # Max concurrent requests
CONCURRENCY == 3

\* scraper.MAX_RETRIES
MAX_RETRIES == 3

\* SQL NULL in a TIMESTAMP column and in a TEXT column
NULL_TS == -1
NULL_TEXT == "NULL"

\* Python None, as returned by get_next_url
None == <<>>

\* error texts written by resume_scraping
ERR_FALSY == "Failed to process URL"
ERR_RAISED == "str(e)"

\* the status and the error texts that scrape_lemma_page passes to update_url_status
STATUS_ERROR == "error"
ERR_FETCH == "Failed to fetch content"
ERR_NO_ENTRIES == "No entries found"

\* the four values of Database.STATUS_*
Statuses == {STATUS_PENDING, STATUS_PROCESSING, STATUS_COMPLETED, STATUS_FAILED}

VARIABLES
    scrape_queue,       \* table scrape_queue: sequence of rows, id = index
    lemmas,             \* table lemmas: set of rows
    clock,              \* CURRENT_TIMESTAMP and time.time()
    pc,                 \* position of each worker in resume_scraping
    next_url,           \* local next_url of each worker: <<url, retry_count>> or None
    entry,              \* local entry of each worker: outcome of _process_url
    reset_count,        \* local reset_count of each retry_failed: the value reset_failed returned
    fetched,            \* history: whether the latest resume_scraping of each worker has called _process_url: "idle", "no" or "yes"
    last_request_time,  \* LogeionScraper.last_request_time
    delay,              \* LogeionScraper.delay
    rl_pc,              \* position of each caller in _wait_for_delay
    wake_at,            \* time at which the asyncio.sleep of each caller ends
    grants,             \* history: the times at which _wait_for_delay returned, in order
    pf_count,           \* history: Processing->Failed transitions per url since its row was created or reset
    fail_count,         \* history: failed attempts per url since its row was created or reset
    claim_count,        \* history: for the urls a specification observes, how often get_next_url has returned the url since the last reset_failed call (or creation)
    claimed,            \* history: urls that get_next_url has returned at least once
    enqueued,           \* history: the urls that add_to_queue has been called with
    add_result,         \* history: what the latest add_to_queue met: "none", "inserted" or the status of the row it left alone
    run_pc,             \* position of run
    sp_pc,              \* position of scrape_lemma_page
    sp_url,             \* argument url of scrape_lemma_page: <<url>>, COROUTINE or None
    sp_result,          \* history: how the latest scrape_lemma_page ended
    pl_pc,              \* position of process_letter
    pl_todo,            \* process_letter: lemmas the for loop has not reached yet
    tasks,              \* process_letter: length of the local list tasks
    running,            \* process_letter: positions of the tasks inside asyncio.gather
    pl_total,           \* process_letter: local total = len(lemmas)
    pl_completed,       \* process_letter: local completed, counted by process_lemma
    pl_invoked,         \* history: how often process_lemma has run for each lemma of the letter
    pl_got,             \* history: the lemmas of the letter for which get_lexicon_entry returned an entry
    gl_pc,              \* position of get_lexicon_entry
    gl_lemma,           \* argument lemma of get_lexicon_entry
    gl_stage,           \* get_lexicon_entry: which _make_request is running, "lang" or "detail"
    attempt,            \* _make_request: local attempt of the for loop
    gl_wake,            \* _make_request: time at which its asyncio.sleep ends
    lang_data,          \* get_lexicon_entry: local lang_data, the language the service answered
    requests,           \* history: the times of the latest two calls of session.get, in order
    progress,           \* history: the dict the latest get_progress returned
    mr_call,            \* history: the requests, failed attempts, last answer and result of the current or latest _make_request call
    gl_result           \* history: what the latest get_lexicon_entry, of the scraper or of the store, returned

queueVars == <<scrape_queue, lemmas, pc, next_url, entry, reset_count, fetched,
               pf_count, fail_count, claimed, claim_count, add_result, enqueued>>
limiterVars == <<last_request_time, delay, rl_pc, wake_at, grants>>
runVars == <<run_pc, sp_pc, sp_url, sp_result>>
letterVars == <<pl_pc, pl_todo, tasks, running, pl_total, pl_completed, pl_invoked, pl_got>>
entryVars == <<gl_pc, gl_lemma, gl_stage, attempt, gl_wake, lang_data, requests, mr_call, gl_result>>
vars == <<queueVars, limiterVars, runVars, letterVars, entryVars, progress, clock>>

(***************************************************************************)
(* The scrape_queue table.                                                 *)
(***************************************************************************)
\* a freshly inserted row: the column defaults of the schema
NewRow(url, status) ==
    [url |-> url, status |-> status, error |-> NULL_TEXT, retry_count |-> 0,
     last_attempted |-> NULL_TS, processing_started |-> NULL_TS, created_at |-> clock]

RowsOf(q, url) == {i \in DOMAIN q : q[i].url = url}

\* a plain INSERT on a table without the UNIQUE constraint
InsertOrIgnore_Plain(q, url, status) == Append(q, NewRow(url, status))

\* INSERT OR REPLACE: the row of the url is deleted and inserted anew
InsertOrIgnore_Replace(q, url, status) ==
    Append(SelectSeq(q, LAMBDA r : r.url # url), NewRow(url, status))

\* INSERT OR IGNORE INTO scrape_queue (url, status): url is UNIQUE
InsertOrIgnore(q, url, status) ==
    IF RowsOf(q, url) # {} THEN q ELSE Append(q, NewRow(url, status))

\* the WHERE clause without its bound on retry_count
Eligible_NoRetryLimit(r) == r.status \in {STATUS_PENDING, STATUS_FAILED}

\* WHERE status = 'pending' OR (status = 'failed' AND retry_count < 3)
Eligible(r) ==
    \/ r.status = STATUS_PENDING
    \/ (r.status = STATUS_FAILED /\ r.retry_count < RETRY_LIMIT)

\* ORDER BY retry_count, created_at
OrderedBefore(r, s) ==
    \/ r.retry_count < s.retry_count
    \/ (r.retry_count = s.retry_count /\ r.created_at < s.created_at)

\* the rows the SELECT ... LIMIT 1 may return: the eligible rows that no
\* other eligible row precedes (SQL leaves the order of ties open)
SelectNext(q) ==
    {i \in DOMAIN q : /\ Eligible(q[i])
                      /\ \A j \in DOMAIN q : Eligible(q[j]) => ~OrderedBefore(q[j], q[i])}

\* an UPDATE that counts the attempt when the url is handed out
MarkProcessing_CountsAttempt(q, url) ==
    [i \in DOMAIN q |->
        IF q[i].url = url
        THEN [q[i] EXCEPT !.status = STATUS_PROCESSING, !.processing_started = clock,
                          !.retry_count = @ + 1]
        ELSE q[i]]

\* an UPDATE that also clears the error of the row it hands out
MarkProcessing_ClearsError(q, url) ==
    [i \in DOMAIN q |->
        IF q[i].url = url
        THEN [q[i] EXCEPT !.status = STATUS_PROCESSING, !.processing_started = clock,
                          !.error = NULL_TEXT]
        ELSE q[i]]

\* UPDATE scrape_queue SET status = 'processing', processing_started = CURRENT_TIMESTAMP WHERE url = ?
MarkProcessing(q, url) ==
    [i \in DOMAIN q |->
        IF q[i].url = url
        THEN [q[i] EXCEPT !.status = STATUS_PROCESSING, !.processing_started = clock]
        ELSE q[i]]

\* the UPDATE with retry_count + 1 for every status
update_url_status_AlwaysCounts(q, url, status, error) ==
    [i \in DOMAIN q |->
        IF q[i].url = url
        THEN [q[i] EXCEPT
                !.status = status,
                !.error = error,
                !.retry_count = @ + 1,
                !.last_attempted = clock,
                !.processing_started = IF status = STATUS_PROCESSING THEN @ ELSE NULL_TS]
        ELSE q[i]]

\* the UPDATE without its WHERE url = ?
update_url_status_NoWhere(q, url, status, error) ==
    [i \in DOMAIN q |->
        [q[i] EXCEPT
            !.status = status,
            !.error = error,
            !.retry_count = IF status = STATUS_FAILED THEN @ + 1 ELSE @,
            !.last_attempted = clock,
            !.processing_started = IF status = STATUS_PROCESSING THEN @ ELSE NULL_TS]]

\* the UPDATE without its CASE for processing_started
update_url_status_KeepsStarted(q, url, status, error) ==
    [i \in DOMAIN q |->
        IF q[i].url = url
        THEN [q[i] EXCEPT
                !.status = status,
                !.error = error,
                !.retry_count = IF status = STATUS_FAILED THEN @ + 1 ELSE @,
                !.last_attempted = clock]
        ELSE q[i]]

\* the UPDATE of update_url_status
update_url_status(q, url, status, error) ==
    [i \in DOMAIN q |->
        IF q[i].url = url
        THEN [q[i] EXCEPT
                !.status = status,
                !.error = error,
                !.retry_count = IF status = STATUS_FAILED THEN @ + 1 ELSE @,
                !.last_attempted = clock,
                !.processing_started = IF status = STATUS_PROCESSING THEN @ ELSE NULL_TS]
        ELSE q[i]]

mark_url_failed(q, url, error) == update_url_status(q, url, STATUS_FAILED, error)

\* a mark_url_completed that removes the finished row from the queue
mark_url_completed_Deletes(q, url) == SelectSeq(q, LAMBDA r : r.url # url)

mark_url_completed(q, url) == update_url_status(q, url, STATUS_COMPLETED, NULL_TEXT)

\* an UPDATE of reset_failed without its WHERE clause
ResetWhere_NoWhere(r) == TRUE

\* the WHERE clause of reset_failed
ResetWhere(r) == r.status = STATUS_FAILED

\* the UPDATE without retry_count = 0
ResetRows_KeepsRetryCount(q) ==
    [i \in DOMAIN q |->
        IF ResetWhere(q[i])
        THEN [q[i] EXCEPT !.status = STATUS_PENDING, !.error = NULL_TEXT]
        ELSE q[i]]

\* the UPDATE without error = NULL
ResetRows_KeepsError(q) ==
    [i \in DOMAIN q |->
        IF ResetWhere(q[i])
        THEN [q[i] EXCEPT !.status = STATUS_PENDING, !.retry_count = 0]
        ELSE q[i]]

\* the UPDATE of reset_failed
ResetRows(q) ==
    [i \in DOMAIN q |->
        IF ResetWhere(q[i])
        THEN [q[i] EXCEPT !.status = STATUS_PENDING, !.retry_count = 0, !.error = NULL_TEXT]
        ELSE q[i]]

CountStatus(q, status) == Cardinality({i \in DOMAIN q : q[i].status = status})

\* the SELECT of get_progress
get_progress(q) ==
    [total |-> Len(q),
     completed |-> CountStatus(q, STATUS_COMPLETED),
     failed |-> CountStatus(q, STATUS_FAILED),
     pending |-> CountStatus(q, STATUS_PENDING),
     processing |-> CountStatus(q, STATUS_PROCESSING)]

(***************************************************************************)
(* The lemmas table.                                                       *)
(***************************************************************************)
\* json.dumps(details, ensure_ascii=False): a dict becomes the text of a JSON
\* object, whose keys are strings
json_dumps(v) == <<"object", {<<p[1][2], p[2]>> : p \in v[2]}>>

\* json.loads(text): a JSON object becomes a dict whose keys are str
json_loads(j) == <<"dict", {<<<<"str", p[1]>>, p[2]>> : p \in j[2]}>>

\* the row of table lemmas that add_lexicon_entry writes for an entry
LemmaRow(e) ==
    [lemma |-> e.lemma, language |-> e.language,
     details |-> json_dumps(e.details), source |-> e.source]

\* INSERT OR REPLACE INTO lemmas: UNIQUE(lemma, language)
add_lexicon_entry(t, e) ==
    {r \in t : ~(r.lemma = e.lemma /\ r.language = e.language)} \cup {LemmaRow(e)}

\* a lookup that finds no row
db_get_lexicon_entry_Miss(t, lemma) == {}

\* Database.get_lexicon_entry(lemma): the dicts the SELECT ... WHERE lemma = ?
\* with fetchone may give; none stands for the return value None
db_get_lexicon_entry(t, lemma) ==
    {[lemma |-> r.lemma, language |-> r.language,
      details |-> json_loads(r.details), source |-> r.source] : r \in {x \in t : x.lemma = lemma}}

\* the record _process_url stores for a url
EntryOf(url) ==
    [lemma |-> url, language |-> "greek",
     details |-> <<"dict", {<<<<"str", "detail">>, "text">>}>>, source |-> "LSJ"]

RecordsOf(t, url) == {r \in t : r.lemma = url}


StatusOf(q, url) == {q[i].status : i \in RowsOf(q, url)}

(***************************************************************************)
(* Initial states.                                                         *)
(***************************************************************************)
\* the claims of no url are counted
NotCounted == [u \in {} |-> 0]

\* no drain loop running, nothing claimed yet; the urls of the rows in the
\* queue are the urls that were enqueued
InitWorkers ==
    /\ lemmas = {}
    /\ pc = [w \in Workers |-> "stopped"]
    /\ next_url = [w \in Workers |-> None]
    /\ entry = [w \in Workers |-> "none"]
    /\ reset_count = [w \in Workers |-> 0]
    /\ fetched = [w \in Workers |-> "idle"]
    /\ pf_count = [u \in Urls |-> 0]
    /\ fail_count = [u \in Urls |-> 0]
    /\ claimed = {}
    /\ enqueued = {scrape_queue[i].url : i \in DOMAIN scrape_queue}
    /\ add_result = "none"

\* LogeionScraper.__init__: last_request_time = 0; no caller in _wait_for_delay
InitLimiter ==
    /\ last_request_time = 0
    /\ rl_pc = [c \in Callers |-> "idle"]
    /\ wake_at = [c \in Callers |-> 0]
    /\ grants = <<>>

\* run and scrape_lemma_page have not been called
InitRun ==
    /\ run_pc = "idle"
    /\ sp_pc = "idle"
    /\ sp_url = None
    /\ sp_result = "none"

\* process_letter has not been called
InitLetter ==
    /\ pl_pc = "idle"
    /\ pl_todo = 0
    /\ tasks = 0
    /\ running = <<>>
    /\ pl_total = 0
    /\ pl_completed = 0
    /\ pl_invoked = [l \in 1..MaxLemmas |-> 0]
    /\ pl_got = {}

\* get_lexicon_entry and get_progress have not been called
InitEntry ==
    /\ progress = [total |-> 0, completed |-> 0, failed |-> 0, pending |-> 0, processing |-> 0]
    /\ gl_pc = "idle"
    /\ gl_lemma = 0
    /\ gl_stage = "none"
    /\ attempt = 0
    /\ gl_wake = 0
    /\ lang_data = "none"
    /\ requests = <<>>
    /\ mr_call = [requests |-> 0, failed |-> 0, last |-> "none", result |-> "pending"]
    /\ gl_result = [path |-> "none", entry |-> None]

\* the state after construction: empty tables
Init ==
    /\ scrape_queue = <<>>
    /\ clock = 0
    /\ delay = 1
    /\ claim_count = NotCounted
    /\ InitWorkers
    /\ InitLimiter
    /\ InitRun
    /\ InitLetter
    /\ InitEntry

(***************************************************************************)
(* Operations of the queue and of the drain loop.                          *)
(***************************************************************************)
\* the clock behind CURRENT_TIMESTAMP advances
Tick ==
    /\ clock < MaxClock
    /\ clock' = clock + 1
    /\ UNCHANGED <<queueVars, limiterVars, runVars, letterVars, entryVars, progress>>

\* Database.add_to_queue(url); urls are numbered in the order of their discovery
add_to_queue(url) ==
    /\ url <= Len(scrape_queue) + 1
    /\ scrape_queue' = InsertOrIgnore(scrape_queue, url, STATUS_PENDING)
    /\ enqueued' = enqueued \cup {url}
    /\ add_result' = IF RowsOf(scrape_queue, url) = {} THEN "inserted"
                     ELSE scrape_queue[CHOOSE i \in RowsOf(scrape_queue, url) : TRUE].status
    /\ UNCHANGED <<lemmas, pc, next_url, entry, reset_count, fetched, pf_count, fail_count, claimed, claim_count>>
    /\ UNCHANGED <<limiterVars, runVars, letterVars, entryVars, progress, clock>>

\* a resume_scraping that resets the Failed rows before it starts
resume_scraping_ResetsFirst(w) ==
    /\ pc[w] = "stopped"
    /\ scrape_queue' = ResetRows(scrape_queue)
    /\ pf_count' = [u \in Urls |->
                        IF STATUS_FAILED \in StatusOf(scrape_queue, u) THEN 0 ELSE pf_count[u]]
    /\ fail_count' = [u \in Urls |->
                        IF STATUS_FAILED \in StatusOf(scrape_queue, u) THEN 0 ELSE fail_count[u]]
    /\ claim_count' = [u \in DOMAIN claim_count |-> 0]
    /\ pc' = [pc EXCEPT ![w] = "get_next_url"]
    /\ fetched' = [fetched EXCEPT ![w] = "no"]
    /\ UNCHANGED <<lemmas, next_url, entry, reset_count, claimed, add_result, enqueued>>
    /\ UNCHANGED <<limiterVars, runVars, letterVars, entryVars, progress, clock>>

\* resume_scraping is invoked
resume_scraping(w) ==
    /\ pc[w] = "stopped"
    /\ pc' = [pc EXCEPT ![w] = "get_next_url"]
    /\ fetched' = [fetched EXCEPT ![w] = "no"]
    /\ UNCHANGED <<scrape_queue, lemmas, next_url, entry, reset_count,
                   pf_count, fail_count, claimed, claim_count, add_result, enqueued>>
    /\ UNCHANGED <<limiterVars, runVars, letterVars, entryVars, progress, clock>>

\* get_next_url: the SELECT finds a row
get_next_url_select(w) ==
    /\ pc[w] = "get_next_url"
    /\ \E i \in SelectNext(scrape_queue) :
          next_url' = [next_url EXCEPT ![w] = <<scrape_queue[i].url, scrape_queue[i].retry_count>>]
    /\ pc' = [pc EXCEPT ![w] = "update"]
    /\ UNCHANGED <<scrape_queue, lemmas, entry, reset_count, fetched,
                   pf_count, fail_count, claimed, claim_count, add_result, enqueued>>
    /\ UNCHANGED <<limiterVars, runVars, letterVars, entryVars, progress, clock>>

\* get_next_url: the SELECT finds no row, None is returned and the loop breaks
get_next_url_none(w) ==
    /\ pc[w] = "get_next_url"
    /\ SelectNext(scrape_queue) = {}
    /\ pc' = [pc EXCEPT ![w] = "stopped"]
    /\ UNCHANGED <<scrape_queue, lemmas, next_url, entry, reset_count, fetched,
                   pf_count, fail_count, claimed, claim_count, add_result, enqueued>>
    /\ UNCHANGED <<limiterVars, runVars, letterVars, entryVars, progress, clock>>

\* get_next_url: the UPDATE marks the selected url and (url, retry_count) is returned
get_next_url_update(w) ==
    /\ pc[w] = "update"
    /\ scrape_queue' = MarkProcessing(scrape_queue, next_url[w][1])
    /\ pc' = [pc EXCEPT ![w] = "process"]
    /\ claimed' = claimed \cup {next_url[w][1]}
    /\ claim_count' = [u \in DOMAIN claim_count |->
                          IF u = next_url[w][1] THEN claim_count[u] + 1 ELSE claim_count[u]]
    /\ UNCHANGED <<lemmas, next_url, entry, reset_count, fetched, pf_count, fail_count, add_result, enqueued>>
    /\ UNCHANGED <<limiterVars, runVars, letterVars, entryVars, progress, clock>>

\* _process_url(url) returns an entry, having stored it
process_url_entry(w) ==
    /\ pc[w] = "process"
    /\ lemmas' = add_lexicon_entry(lemmas, EntryOf(next_url[w][1]))
    /\ entry' = [entry EXCEPT ![w] = "entry"]
    /\ pc' = [pc EXCEPT ![w] = "mark"]
    /\ fetched' = [fetched EXCEPT ![w] = "yes"]
    /\ UNCHANGED <<scrape_queue, next_url, reset_count, pf_count, fail_count, claimed, claim_count, add_result, enqueued>>
    /\ UNCHANGED <<limiterVars, runVars, letterVars, entryVars, progress, clock>>

\* _process_url(url) returns nothing (outcome "none") or raises (outcome "raise")
process_url_fails(w, outcome) ==
    /\ pc[w] = "process"
    /\ entry' = [entry EXCEPT ![w] = outcome]
    /\ pc' = [pc EXCEPT ![w] = "mark"]
    /\ fetched' = [fetched EXCEPT ![w] = "yes"]
    /\ UNCHANGED <<scrape_queue, lemmas, next_url, reset_count, pf_count, fail_count,
                   claimed, claim_count, add_result, enqueued>>
    /\ UNCHANGED <<limiterVars, runVars, letterVars, entryVars, progress, clock>>

\* resume_scraping: mark_url_completed(url) after an entry was returned
report_success(w) ==
    /\ pc[w] = "mark"
    /\ entry[w] = "entry"
    /\ scrape_queue' = mark_url_completed(scrape_queue, next_url[w][1])
    /\ pc' = [pc EXCEPT ![w] = "get_next_url"]
    /\ next_url' = [next_url EXCEPT ![w] = None]
    /\ entry' = [entry EXCEPT ![w] = "none"]
    /\ UNCHANGED <<lemmas, reset_count, fetched, pf_count, fail_count, claimed, claim_count, add_result, enqueued>>
    /\ UNCHANGED <<limiterVars, runVars, letterVars, entryVars, progress, clock>>

\* resume_scraping: mark_url_failed(url, ...) after a falsy result or an exception
report_failure(w) ==
    /\ pc[w] = "mark"
    /\ entry[w] # "entry"
    /\ scrape_queue' = mark_url_failed(scrape_queue, next_url[w][1],
                                       IF entry[w] = "raise" THEN ERR_RAISED ELSE ERR_FALSY)
    /\ pf_count' = [pf_count EXCEPT ![next_url[w][1]] =
                        IF STATUS_PROCESSING \in StatusOf(scrape_queue, next_url[w][1])
                        THEN @ + 1 ELSE @]
    /\ fail_count' = [fail_count EXCEPT ![next_url[w][1]] = @ + 1]
    /\ pc' = [pc EXCEPT ![w] = "get_next_url"]
    /\ next_url' = [next_url EXCEPT ![w] = None]
    /\ entry' = [entry EXCEPT ![w] = "none"]
    /\ UNCHANGED <<lemmas, reset_count, fetched, claimed, claim_count, add_result, enqueued>>
    /\ UNCHANGED <<limiterVars, runVars, letterVars, entryVars, progress, clock>>

\* Database.reset_failed() called by worker w, returning the number of rows changed
reset_failed(w) ==
    /\ scrape_queue' = ResetRows(scrape_queue)
    /\ reset_count' = [reset_count EXCEPT ![w] =
                          Cardinality({i \in DOMAIN scrape_queue : ResetWhere(scrape_queue[i])})]
    /\ pf_count' = [u \in Urls |->
                        IF STATUS_FAILED \in StatusOf(scrape_queue, u) THEN 0 ELSE pf_count[u]]
    /\ fail_count' = [u \in Urls |->
                        IF STATUS_FAILED \in StatusOf(scrape_queue, u) THEN 0 ELSE fail_count[u]]
    /\ claim_count' = [u \in DOMAIN claim_count |-> 0]

\* retry_failed is invoked: reset_count = await self.db.reset_failed()
retry_failed(w) ==
    /\ pc[w] = "stopped"
    /\ reset_failed(w)
    /\ pc' = [pc EXCEPT ![w] = "reset_done"]
    /\ UNCHANGED <<lemmas, next_url, entry, fetched, claimed, add_result, enqueued>>
    /\ UNCHANGED <<limiterVars, runVars, letterVars, entryVars, progress, clock>>

\* retry_failed: resume_scraping if anything was reset, else return
retry_failed_resume(w) ==
    /\ pc[w] = "reset_done"
    /\ pc' = [pc EXCEPT ![w] = IF reset_count[w] > 0 THEN "get_next_url" ELSE "stopped"]
    /\ reset_count' = [reset_count EXCEPT ![w] = 0]
    /\ fetched' = [fetched EXCEPT ![w] = IF reset_count[w] > 0 THEN "no" ELSE @]
    /\ UNCHANGED <<scrape_queue, lemmas, next_url, entry, pf_count, fail_count,
                   claimed, claim_count, add_result, enqueued>>
    /\ UNCHANGED <<limiterVars, runVars, letterVars, entryVars, progress, clock>>

\* a worker holds a claim from the return of get_next_url until it has reported
Holds(w) == pc[w] \in {"process", "mark"}

\* one step of a worker
Step(w) ==
    \/ resume_scraping(w)
    \/ get_next_url_select(w)
    \/ get_next_url_none(w)
    \/ get_next_url_update(w)
    \/ process_url_entry(w)
    \/ \E outcome \in {"none", "raise"} : process_url_fails(w, outcome)
    \/ report_success(w)
    \/ report_failure(w)
    \/ retry_failed(w)
    \/ retry_failed_resume(w)

(***************************************************************************)
(* Spec: the program as written.  One drain loop runs at a time (only      *)
(* worker 1 is ever started), urls are discovered and the clock advances.  *)
(***************************************************************************)
Next ==
    \/ Tick
    \/ \E url \in Urls : add_to_queue(url)
    \/ Step(1)

Spec == Init /\ [][Next]_vars

(***************************************************************************)
(* SpecStore: a client of the store that enqueues urls and reports on them *)
(* by awaiting Database.update_url_status with the (status, error)         *)
(* arguments of the call sites in scrape_lemma_page.                       *)
(***************************************************************************)
\* the arguments of update_url_status at scraper.py 380, 385, 391 and 396
StatusCalls ==
    {<<STATUS_ERROR, ERR_FETCH>>, <<STATUS_ERROR, ERR_NO_ENTRIES>>,
     <<STATUS_COMPLETED, NULL_TEXT>>, <<STATUS_ERROR, ERR_RAISED>>}

\* await Database.update_url_status(url, status, error)
update_url_status_call(url, status, error) ==
    /\ scrape_queue' = update_url_status(scrape_queue, url, status, error)
    /\ UNCHANGED <<lemmas, pc, next_url, entry, reset_count, fetched, pf_count, fail_count,
                   claimed, claim_count, add_result, enqueued>>
    /\ UNCHANGED <<limiterVars, runVars, letterVars, entryVars, progress, clock>>

NextStore ==
    \/ Tick
    \/ \E url \in Urls : add_to_queue(url)
    \/ \E url \in Urls, call \in StatusCalls : update_url_status_call(url, call[1], call[2])

SpecStore == Init /\ [][NextStore]_vars

(***************************************************************************)
(* SpecConcurrent: NumWorkers drain loops run concurrently on a queue that *)
(* discovery has filled.  The run falls into one tick of CURRENT_TIMESTAMP,*)
(* so all created_at are equal and the SELECT may return any eligible row  *)
(* of least retry_count.                                                   *)
(***************************************************************************)
\* the queue after add_to_queue(1), ..., add_to_queue(n)
QueueOf(n) == [i \in 1..n |-> NewRow(i, STATUS_PENDING)]

\* the state of InitQueued but for claim_count
Queued ==
    /\ clock = 0
    /\ \E n \in 0..MaxUrls : scrape_queue = QueueOf(n)
    /\ delay = 1
    /\ InitWorkers
    /\ InitLimiter
    /\ InitRun
    /\ InitLetter
    /\ InitEntry

InitQueued ==
    /\ Queued
    /\ claim_count = NotCounted

NextConcurrent == \E w \in Workers : Step(w)

SpecConcurrent == InitQueued /\ [][NextConcurrent]_vars

(***************************************************************************)
(* SpecClaims: the concurrent drain loops of SpecConcurrent, with the      *)
(* claims of every url counted.                                            *)
(***************************************************************************)
InitClaims ==
    /\ Queued
    /\ claim_count = [u \in Urls |-> 0]

SpecClaims == InitClaims /\ [][NextConcurrent]_vars

(***************************************************************************)
(* SpecCrash: the concurrent drain loops of SpecConcurrent, any of which   *)
(* may be cancelled while it handles an item.  asyncio.CancelledError and  *)
(* KeyboardInterrupt are not caught by "except Exception", so the loop is  *)
(* left without a report and the row of the item stays Processing.         *)
(***************************************************************************)
\* resume_scraping is cancelled between get_next_url and its report
worker_stops(w) ==
    /\ Holds(w)
    /\ pc' = [pc EXCEPT ![w] = "stopped"]
    /\ next_url' = [next_url EXCEPT ![w] = None]
    /\ entry' = [entry EXCEPT ![w] = "none"]
    /\ UNCHANGED <<scrape_queue, lemmas, reset_count, fetched, pf_count, fail_count,
                   claimed, claim_count, add_result, enqueued>>
    /\ UNCHANGED <<limiterVars, runVars, letterVars, entryVars, progress, clock>>

NextCrash ==
    \/ \E w \in Workers : Step(w)
    \/ \E w \in Workers : worker_stops(w)

SpecCrash == InitQueued /\ [][NextCrash]_vars

(***************************************************************************)
(* SpecAllFail: concurrent drain loops, started on a filled queue, in a    *)
(* run in which every fetch fails.                                         *)
(***************************************************************************)
InitAllFail ==
    /\ clock = 0
    /\ \E n \in 0..MaxUrls : scrape_queue = QueueOf(n)
    /\ delay = 1
    /\ lemmas = {}
    /\ pc = [w \in Workers |-> "get_next_url"]
    /\ next_url = [w \in Workers |-> None]
    /\ entry = [w \in Workers |-> "none"]
    /\ reset_count = [w \in Workers |-> 0]
    /\ fetched = [w \in Workers |-> "idle"]
    /\ pf_count = [u \in Urls |-> 0]
    /\ fail_count = [u \in Urls |-> 0]
    /\ claimed = {}
    /\ claim_count = NotCounted
    /\ enqueued = {scrape_queue[i].url : i \in DOMAIN scrape_queue}
    /\ add_result = "none"
    /\ InitLimiter
    /\ InitRun
    /\ InitLetter
    /\ InitEntry

NextAllFail ==
    \E w \in Workers :
        \/ get_next_url_select(w)
        \/ get_next_url_none(w)
        \/ get_next_url_update(w)
        \/ \E outcome \in {"none", "raise"} : process_url_fails(w, outcome)
        \/ report_failure(w)

SpecAllFail == InitAllFail /\ [][NextAllFail]_vars

(***************************************************************************)
(* SpecLimiter: process_letter hands batches of NumCallers process_lemma   *)
(* tasks to gather; each task calls _wait_for_delay once.  The scraper was *)
(* built with some delay and starts when time.time() is past it.           *)
(***************************************************************************)
InitLimited ==
    /\ scrape_queue = <<>>
    /\ claim_count = NotCounted
    /\ InitWorkers
    /\ InitLimiter
    /\ InitRun
    /\ InitLetter
    /\ InitEntry
    /\ delay \in 1..MaxDelay
    /\ clock = MaxDelay

\* time.time() advances
LimiterTick ==
    /\ clock < MaxDelay + MaxTime
    /\ clock' = clock + 1
    /\ UNCHANGED <<queueVars, limiterVars, runVars, letterVars, entryVars, progress>>

\* _wait_for_delay up to its await: too early, so the caller goes to sleep
wait_for_delay_sleep(c) ==
    /\ rl_pc[c] = "idle"
    /\ clock - last_request_time < delay
    /\ wake_at' = [wake_at EXCEPT ![c] = clock + (delay - (clock - last_request_time))]
    /\ rl_pc' = [rl_pc EXCEPT ![c] = "sleeping"]
    /\ UNCHANGED <<last_request_time, delay, grants, queueVars, runVars, letterVars, entryVars, progress, clock>>

\* _wait_for_delay without a sleep: late enough, the slot is taken at once
wait_for_delay_pass(c) ==
    /\ rl_pc[c] = "idle"
    /\ ~(clock - last_request_time < delay)
    /\ last_request_time' = clock
    /\ grants' = Append(grants, clock)
    /\ rl_pc' = [rl_pc EXCEPT ![c] = "done"]
    /\ UNCHANGED <<delay, wake_at, queueVars, runVars, letterVars, entryVars, progress, clock>>

\* _wait_for_delay after its await: the sleep is over, the slot is taken
wait_for_delay_wake(c) ==
    /\ rl_pc[c] = "sleeping"
    /\ clock >= wake_at[c]
    /\ last_request_time' = clock
    /\ grants' = Append(grants, clock)
    /\ rl_pc' = [rl_pc EXCEPT ![c] = "done"]
    /\ wake_at' = [wake_at EXCEPT ![c] = 0]
    /\ UNCHANGED <<delay, queueVars, runVars, letterVars, entryVars, progress, clock>>

\* process_letter: gather has returned, the next batch of tasks is started
next_batch ==
    /\ \A c \in Callers : rl_pc[c] = "done"
    /\ rl_pc' = [c \in Callers |-> "idle"]
    /\ UNCHANGED <<last_request_time, delay, wake_at, grants, queueVars, runVars, letterVars, entryVars, progress, clock>>

NextLimiter ==
    \/ LimiterTick
    \/ \E c \in Callers : wait_for_delay_sleep(c)
    \/ \E c \in Callers : wait_for_delay_pass(c)
    \/ \E c \in Callers : wait_for_delay_wake(c)
    \/ next_batch

SpecLimiter == InitLimited /\ [][NextLimiter]_vars

(***************************************************************************)
(* SpecRun: the program of Spec with the second drain loop, run, and its   *)
(* worker scrape_lemma_page as further entry points.  Both call the async  *)
(* methods of Database without await: such a call builds a coroutine       *)
(* object that is never scheduled, so the statement of the method is not   *)
(* executed and the value the caller gets is the (truthy) coroutine.       *)
(***************************************************************************)
\* the value of self.db.get_next_url() without await
COROUTINE == <<"coroutine", "get_next_url">>

\* the argument of scrape_lemma_page is <<url>> for a url, or COROUTINE
IsUrl(arg) == Len(arg) = 1

\* run is called
run_call ==
    /\ run_pc \in {"idle", "raised"}
    /\ sp_pc = "idle"
    /\ run_pc' = "get_next_url"
    /\ UNCHANGED <<sp_pc, sp_url, sp_result, queueVars, limiterVars, letterVars, entryVars, progress, clock>>

\* run: url = self.db.get_next_url() is a coroutine object, "if not url" is
\* false, and scrape_lemma_page(url) is awaited
run_get_next_url ==
    /\ run_pc = "get_next_url"
    /\ run_pc' = "scrape"
    /\ sp_url' = COROUTINE
    /\ sp_pc' = "fetch"
    /\ sp_result' = "none"
    /\ UNCHANGED <<queueVars, limiterVars, letterVars, entryVars, progress, clock>>

\* scrape_lemma_page(url) is called with the url of a queued item
scrape_lemma_page(url) ==
    /\ run_pc \in {"idle", "raised"}
    /\ sp_pc = "idle"
    /\ RowsOf(scrape_queue, url) # {}
    /\ sp_url' = <<url>>
    /\ sp_pc' = "fetch"
    /\ sp_result' = "none"
    /\ UNCHANGED <<run_pc, queueVars, limiterVars, letterVars, entryVars, progress, clock>>

\* get_page_content returns None: update_url_status(url, 'error', 'Failed to
\* fetch content') is not awaited, return False
sp_fetch_fails ==
    /\ sp_pc = "fetch"
    /\ sp_pc' = "returned"
    /\ sp_result' = "fetch_failed"
    /\ UNCHANGED <<run_pc, sp_url, queueVars, limiterVars, letterVars, entryVars, progress, clock>>

\* get_page_content returns the page of a url (it cannot, for a coroutine object)
sp_fetch_content ==
    /\ sp_pc = "fetch"
    /\ IsUrl(sp_url)
    /\ sp_pc' = "parse"
    /\ UNCHANGED <<run_pc, sp_url, sp_result, queueVars, limiterVars, letterVars, entryVars, progress, clock>>

\* parse_lexicon_entry raises: except Exception, update_url_status(url,
\* 'error', str(e)) is not awaited, return False
sp_parse_raises ==
    /\ sp_pc = "parse"
    /\ sp_pc' = "returned"
    /\ sp_result' = "raised"
    /\ UNCHANGED <<run_pc, sp_url, queueVars, limiterVars, letterVars, entryVars, progress, clock>>

\* parse_lexicon_entry returns no entry: update_url_status(url, 'error', 'No
\* entries found') is not awaited, return False
sp_parse_empty ==
    /\ sp_pc = "parse"
    /\ sp_pc' = "returned"
    /\ sp_result' = "no_entries"
    /\ UNCHANGED <<run_pc, sp_url, queueVars, limiterVars, letterVars, entryVars, progress, clock>>

\* parse_lexicon_entry returns entries: add_lexicon_entry(entry) is not
\* awaited for any of them, update_url_status(url, 'completed') is not
\* awaited, return True
sp_parse_entries ==
    /\ sp_pc = "parse"
    /\ sp_pc' = "returned"
    /\ sp_result' = "completed"
    /\ UNCHANGED <<run_pc, sp_url, queueVars, limiterVars, letterVars, entryVars, progress, clock>>

\* scrape_lemma_page returns to the caller that passed a url
sp_return ==
    /\ sp_pc = "returned"
    /\ run_pc # "scrape"
    /\ sp_pc' = "idle"
    /\ sp_url' = None
    /\ sp_result' = "none"
    /\ UNCHANGED <<run_pc, queueVars, limiterVars, letterVars, entryVars, progress, clock>>

\* run: scrape_lemma_page has returned; progress = self.db.get_progress() is
\* a coroutine object and progress['completed'] raises TypeError out of run
run_progress ==
    /\ run_pc = "scrape"
    /\ sp_pc = "returned"
    /\ run_pc' = "raised"
    /\ sp_pc' = "idle"
    /\ sp_url' = None
    /\ sp_result' = "none"
    /\ UNCHANGED <<queueVars, limiterVars, letterVars, entryVars, progress, clock>>

NextRun ==
    \/ Next
    \/ run_call
    \/ run_get_next_url
    \/ \E url \in Urls : scrape_lemma_page(url)
    \/ sp_fetch_fails
    \/ sp_fetch_content
    \/ sp_parse_raises
    \/ sp_parse_empty
    \/ sp_parse_entries
    \/ sp_return
    \/ run_progress

SpecRun == Init /\ [][NextRun]_vars

(***************************************************************************)
(* SpecLetter: process_letter, called for one letter after another by      *)
(* run_scraper, on the lemmas that discover_lemmas returned.  A task is a   *)
(* process_lemma coroutine: it starts when gather is awaited, waits for     *)
(* its delay, makes its requests and is done.                              *)
(***************************************************************************)
\* if len(tasks) >= CONCURRENCY, off by one
BatchFull_OffByOne(t) == t > CONCURRENCY

\* if len(tasks) >= CONCURRENCY
BatchFull(t) == t >= CONCURRENCY

\* the tasks of the awaited gather that have neither returned nor raised yet
InFlight == Cardinality({i \in DOMAIN running : running[i] \notin {"done", "raised"}})

\* a task of the awaited gather has raised an exception
Raised == \E i \in DOMAIN running : running[i] = "raised"

\* the lemma, by its place in the list discover_lemmas returned, of task i of
\* the batch in tasks
LemmaOf(i) == pl_total - pl_todo - tasks + i

\* asyncio.gather(*tasks) schedules every coroutine of the batch: process_lemma
\* starts to run for its lemma
Invoke(inv) ==
    [l \in DOMAIN inv |-> IF \E i \in 1..tasks : LemmaOf(i) = l THEN inv[l] + 1 ELSE inv[l]]

\* process_letter is called; discover_lemmas returns n lemmas; tasks = []
process_letter(n) ==
    /\ pl_pc = "idle"
    /\ pl_pc' = "loop"
    /\ pl_todo' = n
    /\ pl_total' = n
    /\ pl_completed' = 0
    /\ pl_invoked' = [l \in 1..MaxLemmas |-> 0]
    /\ pl_got' = {}
    /\ tasks' = 0
    /\ UNCHANGED <<running, queueVars, limiterVars, runVars, entryVars, progress, clock>>

\* for lemma in lemmas: the batch is not full, tasks.append(process_lemma(lemma))
pl_append ==
    /\ pl_pc = "loop"
    /\ pl_todo > 0
    /\ ~BatchFull(tasks)
    /\ tasks' = tasks + 1
    /\ pl_todo' = pl_todo - 1
    /\ UNCHANGED <<pl_pc, running, pl_total, pl_completed, pl_invoked, pl_got, queueVars, limiterVars, runVars, entryVars, progress, clock>>

\* for lemma in lemmas: the batch is full, await asyncio.gather(*tasks) starts the tasks
pl_gather ==
    /\ pl_pc = "loop"
    /\ pl_todo > 0
    /\ BatchFull(tasks)
    /\ running' = [i \in 1..tasks |-> "wait_for_delay"]
    /\ pl_invoked' = Invoke(pl_invoked)
    /\ pl_pc' = "gather"
    /\ UNCHANGED <<pl_todo, tasks, pl_total, pl_completed, pl_got, queueVars, limiterVars, runVars, entryVars, progress, clock>>

\* a task of the gather has waited for its delay and makes its requests
task_request(i) ==
    /\ i \in DOMAIN running
    /\ running[i] = "wait_for_delay"
    /\ running' = [running EXCEPT ![i] = "request"]
    /\ UNCHANGED <<pl_pc, pl_todo, tasks, pl_total, pl_completed, pl_invoked, pl_got,
                   queueVars, limiterVars, runVars, entryVars, progress, clock>>

\* a task of the gather is done: get_lexicon_entry returned an entry (got)
\* or None; if entry: completed += 1
task_done(i, got) ==
    /\ i \in DOMAIN running
    /\ running[i] = "request"
    /\ running' = [running EXCEPT ![i] = "done"]
    /\ pl_completed' = IF got THEN pl_completed + 1 ELSE pl_completed
    /\ pl_got' = IF got THEN pl_got \cup {LemmaOf(i)} ELSE pl_got
    /\ UNCHANGED <<pl_pc, pl_todo, tasks, pl_total, pl_invoked, queueVars, limiterVars, runVars, entryVars, progress, clock>>

\* a task of the gather raises: get_lexicon_entry let an exception pass that
\* _make_request does not catch (asyncio.TimeoutError, or AttributeError for
\* an answer that is no JSON object), and process_lemma catches nothing
task_raises(i) ==
    /\ i \in DOMAIN running
    /\ running[i] = "request"
    /\ running' = [running EXCEPT ![i] = "raised"]
    /\ UNCHANGED <<pl_pc, pl_todo, tasks, pl_total, pl_completed, pl_invoked, pl_got,
                   queueVars, limiterVars, runVars, entryVars, progress, clock>>

\* await asyncio.gather(*tasks) raises the exception of a task: process_letter
\* is left without a result, the other tasks of the batch run on
pl_gather_raises ==
    /\ pl_pc \in {"gather", "final_gather"}
    /\ Raised
    /\ pl_pc' = "raised"
    /\ UNCHANGED <<pl_todo, tasks, running, pl_total, pl_completed, pl_invoked, pl_got,
                   queueVars, limiterVars, runVars, entryVars, progress, clock>>

\* the gather inside the loop returns when all its tasks are done; tasks = []
pl_gather_done ==
    /\ pl_pc = "gather"
    /\ InFlight = 0
    /\ ~Raised
    /\ tasks' = 0
    /\ running' = <<>>
    /\ pl_pc' = "loop"
    /\ UNCHANGED <<pl_todo, pl_total, pl_completed, pl_invoked, pl_got, queueVars, limiterVars, runVars, entryVars, progress, clock>>

\* after the loop: if tasks: await asyncio.gather(*tasks)
pl_final_gather ==
    /\ pl_pc = "loop"
    /\ pl_todo = 0
    /\ tasks > 0
    /\ running' = [i \in 1..tasks |-> "wait_for_delay"]
    /\ pl_invoked' = Invoke(pl_invoked)
    /\ pl_pc' = "final_gather"
    /\ UNCHANGED <<pl_todo, tasks, pl_total, pl_completed, pl_got, queueVars, limiterVars, runVars, entryVars, progress, clock>>

\* return total, completed: after the last gather, or at once if there was no lemma
pl_return ==
    /\ \/ pl_pc = "final_gather" /\ InFlight = 0 /\ ~Raised
       \/ pl_pc = "loop" /\ pl_todo = 0 /\ tasks = 0
    /\ pl_pc' = "idle"
    /\ tasks' = 0
    /\ running' = <<>>
    /\ UNCHANGED <<pl_todo, pl_total, pl_completed, pl_invoked, pl_got, queueVars, limiterVars, runVars, entryVars, progress, clock>>

NextLetter ==
    \/ \E n \in 0..MaxLemmas : process_letter(n)
    \/ pl_append
    \/ pl_gather
    \/ \E i \in 1..MaxLemmas : task_request(i)
    \/ \E i \in 1..MaxLemmas, got \in BOOLEAN : task_done(i, got)
    \/ \E i \in 1..MaxLemmas : task_raises(i)
    \/ pl_gather_raises
    \/ pl_gather_done
    \/ pl_final_gather
    \/ pl_return

SpecLetter == Init /\ [][NextLetter]_vars

(***************************************************************************)
(* SpecEntry: get_lexicon_entry is called for one lemma after another by a *)
(* single caller; the service answers each session.get with a JSON body,   *)
(* an empty body, a status other than 200 or a client error.               *)
(***************************************************************************)
Keys == 1..MaxKeys

\* the languages checkLang answers with
Languages == {"greek", "latin"}

\* the values detail_data.get('detail', {}) takes: dicts read from JSON
Details == {<<"dict", {}>>, <<"dict", {<<<<"str", "headword">>, "text">>}>>}

\* the dict get_lexicon_entry builds from the two answers
NewEntry(lemma, lang, detail) ==
    [lemma |-> lemma, language |-> lang, details |-> detail, source |-> "LSJ"]

\* the history keeps the latest two entries
LatestTwo(h) == IF Len(h) > 2 THEN Tail(h) ELSE h

\* what a call returned: path tells how it ended, entry is <<>> for None
Returned(path, e) == [path |-> path, entry |-> e]

\* _make_request is entered: no request made yet
NoCall == [requests |-> 0, failed |-> 0, last |-> "none", result |-> "pending"]

\* the bodies of a 200 answer that carry no data: JSON null and an empty object
NoData == {"null", "{}"}

\* response.json(): JSON null is None, an object is a dict
response_json(body) == IF body = "null" THEN None ELSE <<"dict", {}>>

\* for attempt in range(MAX_RETRIES): there is another attempt after attempt a,
\* with one attempt more
AnotherAttempt_OneMore(a) == a + 1 <= MAX_RETRIES

\* for attempt in range(MAX_RETRIES): there is another attempt after attempt a
AnotherAttempt(a) == a + 1 < MAX_RETRIES

\* one session.get of _make_request: answer is "200", "status", "error" or "raise";
\* result is "pending" while the call goes on. A call that has returned is
\* followed by a new call.
Request(c, answer, result) ==
    LET b == IF c.result = "pending" THEN c ELSE NoCall
    IN  [requests |-> b.requests + 1,
         failed |-> IF answer = "200" THEN b.failed ELSE b.failed + 1,
         last |-> answer,
         result |-> result]

\* get_lexicon_entry(lemma) is called
get_lexicon_entry(lemma) ==
    /\ gl_pc = "idle"
    /\ gl_pc' = "wait"
    /\ gl_lemma' = lemma
    /\ rl_pc' = [rl_pc EXCEPT ![1] = "idle"]
    /\ UNCHANGED <<gl_stage, attempt, gl_wake, lang_data, requests, mr_call, gl_result>>
    /\ UNCHANGED <<last_request_time, delay, wake_at, grants, queueVars, runVars, letterVars, progress, clock>>

\* get_lexicon_entry: await self._wait_for_delay()
gl_wait_for_delay ==
    /\ gl_pc = "wait"
    /\ \/ wait_for_delay_sleep(1)
       \/ wait_for_delay_pass(1)
       \/ wait_for_delay_wake(1)

\* get_lexicon_entry: existing_entry = await self.db.get_lexicon_entry(lemma)
gl_lookup ==
    /\ gl_pc = "wait"
    /\ rl_pc[1] = "done"
    /\ IF db_get_lexicon_entry(lemmas, gl_lemma) # {}
       THEN /\ \E e \in db_get_lexicon_entry(lemmas, gl_lemma) :
                  gl_result' = Returned("existing", <<e>>)
            /\ gl_pc' = "idle"
            /\ UNCHANGED <<gl_stage, attempt>>
       ELSE /\ gl_pc' = "request"
            /\ gl_stage' = "lang"
            /\ attempt' = 0
            /\ UNCHANGED gl_result
    /\ UNCHANGED <<gl_lemma, gl_wake, lang_data, requests, mr_call>>
    /\ UNCHANGED <<queueVars, limiterVars, runVars, letterVars, progress, clock>>

\* _make_request: session.get answers 200 with a body for checkLang
mr_lang_data(lang) ==
    /\ gl_pc = "request"
    /\ gl_stage = "lang"
    /\ requests' = LatestTwo(Append(requests, clock))
    /\ lang_data' = lang
    /\ gl_stage' = "detail"
    /\ attempt' = 0
    /\ mr_call' = Request(mr_call, "200", "data")
    /\ UNCHANGED <<gl_pc, gl_lemma, gl_wake, gl_result>>
    /\ UNCHANGED <<queueVars, limiterVars, runVars, letterVars, progress, clock>>

\* _make_request: session.get answers 200 with a body for detail; the entry is
\* built, stored with add_lexicon_entry and returned
mr_detail_data(detail) ==
    /\ gl_pc = "request"
    /\ gl_stage = "detail"
    /\ requests' = LatestTwo(Append(requests, clock))
    /\ lemmas' = add_lexicon_entry(lemmas, NewEntry(gl_lemma, lang_data, detail))
    /\ gl_result' = Returned("fetched", <<NewEntry(gl_lemma, lang_data, detail)>>)
    /\ mr_call' = Request(mr_call, "200", "data")
    /\ gl_pc' = "idle"
    /\ UNCHANGED <<gl_lemma, gl_stage, attempt, gl_wake, lang_data>>
    /\ UNCHANGED <<scrape_queue, pc, next_url, entry, reset_count, fetched, pf_count, fail_count,
                   claimed, claim_count, add_result, enqueued>>
    /\ UNCHANGED <<limiterVars, runVars, letterVars, progress, clock>>

\* _make_request: session.get answers 200 with a body without data, and
\* response.json() is returned: None or an empty dict; get_lexicon_entry
\* returns None
mr_no_data(body) ==
    /\ gl_pc = "request"
    /\ requests' = LatestTwo(Append(requests, clock))
    /\ mr_call' = Request(mr_call, "200",
                          IF response_json(body) = None THEN "None" ELSE "falsy")
    /\ gl_result' = Returned("None", None)
    /\ gl_pc' = "idle"
    /\ UNCHANGED <<gl_lemma, gl_stage, attempt, gl_wake, lang_data>>
    /\ UNCHANGED <<queueVars, limiterVars, runVars, letterVars, progress, clock>>

\* _make_request: session.get answers with a status other than 200 (kind
\* "status") or raises aiohttp.ClientError (kind "error"); the last attempt
\* that raises returns None at once, every other failure sleeps
mr_fails(kind) ==
    /\ gl_pc = "request"
    /\ requests' = LatestTwo(Append(requests, clock))
    /\ IF kind = "error" /\ attempt = MAX_RETRIES - 1
       THEN /\ gl_result' = Returned("None", None)
            /\ mr_call' = Request(mr_call, kind, "None")
            /\ gl_pc' = "idle"
            /\ UNCHANGED gl_wake
       ELSE /\ gl_wake' = clock + delay * (attempt + 1)
            /\ mr_call' = Request(mr_call, kind, "pending")
            /\ gl_pc' = "sleep"
            /\ UNCHANGED gl_result
    /\ UNCHANGED <<gl_lemma, gl_stage, attempt, lang_data>>
    /\ UNCHANGED <<queueVars, limiterVars, runVars, letterVars, progress, clock>>

\* _make_request: session.get raises an exception that is neither
\* aiohttp.ClientError nor json.JSONDecodeError (asyncio.TimeoutError); it
\* passes through _make_request and get_lexicon_entry
mr_raises ==
    /\ gl_pc = "request"
    /\ requests' = LatestTwo(Append(requests, clock))
    /\ mr_call' = Request(mr_call, "raise", "raised")
    /\ gl_result' = Returned("raised", None)
    /\ gl_pc' = "idle"
    /\ UNCHANGED <<gl_lemma, gl_stage, attempt, gl_wake, lang_data>>
    /\ UNCHANGED <<queueVars, limiterVars, runVars, letterVars, progress, clock>>

\* _make_request: asyncio.sleep(self.delay * (attempt + 1)) is over; the for
\* loop goes on, or has run out and None is returned
mr_wake ==
    /\ gl_pc = "sleep"
    /\ clock >= gl_wake
    /\ gl_wake' = 0
    /\ IF AnotherAttempt(attempt)
       THEN /\ attempt' = attempt + 1
            /\ gl_pc' = "request"
            /\ UNCHANGED <<gl_result, mr_call>>
       ELSE /\ gl_result' = Returned("None", None)
            /\ mr_call' = [mr_call EXCEPT !.result = "None"]
            /\ gl_pc' = "idle"
            /\ UNCHANGED attempt
    /\ UNCHANGED <<gl_lemma, gl_stage, lang_data, requests>>
    /\ UNCHANGED <<queueVars, limiterVars, runVars, letterVars, progress, clock>>

NextEntry ==
    \/ LimiterTick
    \/ \E lemma \in Keys : get_lexicon_entry(lemma)
    \/ gl_wait_for_delay
    \/ gl_lookup
    \/ \E lang \in Languages : mr_lang_data(lang)
    \/ \E detail \in Details : mr_detail_data(detail)
    \/ \E body \in NoData : mr_no_data(body)
    \/ \E kind \in {"status", "error"} : mr_fails(kind)
    \/ mr_raises
    \/ mr_wake

SpecEntry == InitLimited /\ [][NextEntry]_vars

(***************************************************************************)
(* SpecLemmas: a client of the store that saves entries with               *)
(* add_lexicon_entry and reads them back with get_lexicon_entry.           *)
(***************************************************************************)
\* the entries a client saves
Entries == {NewEntry(lemma, lang, detail) : lemma \in Keys, lang \in Languages, detail \in Details}

\* Database.add_lexicon_entry(e) called by a client
add_lexicon_entry_call(e) ==
    /\ lemmas' = add_lexicon_entry(lemmas, e)
    /\ UNCHANGED <<scrape_queue, pc, next_url, entry, reset_count, fetched, pf_count,
                   fail_count, claimed, claim_count, add_result, enqueued>>
    /\ UNCHANGED <<limiterVars, runVars, letterVars, entryVars, progress, clock>>

\* Database.get_lexicon_entry(lemma) called by a client: a dict or None
get_lexicon_entry_call(lemma) ==
    /\ gl_lemma' = lemma
    /\ IF db_get_lexicon_entry(lemmas, lemma) = {}
       THEN gl_result' = Returned("None", None)
       ELSE \E e \in db_get_lexicon_entry(lemmas, lemma) : gl_result' = Returned("existing", <<e>>)
    /\ UNCHANGED <<gl_pc, gl_stage, attempt, gl_wake, lang_data, requests, mr_call>>
    /\ UNCHANGED <<queueVars, limiterVars, runVars, letterVars, progress, clock>>

NextLemmas ==
    \/ \E e \in Entries : add_lexicon_entry_call(e)
    \/ \E lemma \in Keys : get_lexicon_entry_call(lemma)

SpecLemmas == Init /\ [][NextLemmas]_vars

(***************************************************************************)
(* SpecProgress: the client of SpecStore, which also reads get_progress    *)
(* between its writes.                                                     *)
(***************************************************************************)
\* await Database.get_progress(): one SELECT over scrape_queue
get_progress_call ==
    /\ progress' = get_progress(scrape_queue)
    /\ UNCHANGED <<queueVars, limiterVars, runVars, letterVars, entryVars, clock>>

NextProgress ==
    \/ NextStore
    \/ get_progress_call

SpecProgress == Init /\ [][NextProgress]_vars

(***************************************************************************)
(* SpecFault: the program of Spec on a store whose statements may fail     *)
(* (sqlite3.OperationalError: database is locked, disk I/O error) while    *)
(* get_next_url runs.                                                      *)
(***************************************************************************)
\* get_next_url: connect, the SELECT, the UPDATE or the commit raises; the
\* except branch logs and returns None, an UPDATE that was not committed is
\* discarded with the connection, and resume_scraping breaks out of its loop
get_next_url_error(w) ==
    /\ pc[w] \in {"get_next_url", "update"}
    /\ pc' = [pc EXCEPT ![w] = "stopped"]
    /\ next_url' = [next_url EXCEPT ![w] = None]
    /\ UNCHANGED <<scrape_queue, lemmas, entry, reset_count, fetched, pf_count, fail_count,
                   claimed, claim_count, add_result, enqueued>>
    /\ UNCHANGED <<limiterVars, runVars, letterVars, entryVars, progress, clock>>

NextFault ==
    \/ Next
    \/ get_next_url_error(1)

SpecFault == Init /\ [][NextFault]_vars

(***************************************************************************)
(* Properties.                                                             *)
(***************************************************************************)
\* C1: get_next_url is exclusive: no two workers hold a claim on the same
\* url at the same time.
C1_ExclusiveClaim ==
    \A v, w \in Workers :
        (v # w /\ Holds(v) /\ Holds(w)) => next_url[v][1] # next_url[w][1]

\* C2: any two grants of _wait_for_delay are at least delay apart, so the
\* last of N grants is at least (N-1)*delay after the first.
C2_GrantsSpaced ==
    \A i, j \in DOMAIN grants :
        i < j => grants[j] - grants[i] >= (j - i) * delay

\* C3: the url that get_next_url selects belongs to a row that, when it is
\* selected, is Pending, or Failed with retry_count below the limit of 3:
\* never Completed, Processing, or Failed with retry_count >= 3.
C3_SelectsOnlyEligible ==
    [][\A w \in Workers :
          (pc[w] = "get_next_url" /\ pc'[w] = "update") =>
              \A i \in RowsOf(scrape_queue, next_url'[w][1]) :
                  \/ scrape_queue[i].status = STATUS_PENDING
                  \/ /\ scrape_queue[i].status = STATUS_FAILED
                     /\ scrape_queue[i].retry_count < RETRY_LIMIT]_vars

\* C3, witness: get_next_url has returned an item that had failed twice.
C3_Witness ==
    \E w \in Workers : pc[w] = "process" /\ next_url[w][2] = RETRY_LIMIT - 1

\* C4: the retry_count of every Failed item equals the number of
\* Processing->Failed transitions the item has undergone since it was last
\* reset (or created).
C4_RetryCountCountsFailures ==
    \A i \in DOMAIN scrape_queue :
        scrape_queue[i].status = STATUS_FAILED =>
            scrape_queue[i].retry_count = pf_count[scrape_queue[i].url]

\* all the drain loops have returned
AllStopped == \A w \in Workers : pc[w] = "stopped"

\* C5: when every fetch fails, the run ends with every item Failed with
\* retry_count exactly 3, and the snapshot reads pending = 0, processing = 0,
\* completed = 0, failed = n.
C5_AllFailedAfterDrain ==
    AllStopped =>
        /\ \A i \in DOMAIN scrape_queue :
              /\ scrape_queue[i].status = STATUS_FAILED
              /\ scrape_queue[i].retry_count = RETRY_LIMIT
        /\ get_progress(scrape_queue) =
              [total |-> Len(scrape_queue), completed |-> 0,
               failed |-> Len(scrape_queue), pending |-> 0, processing |-> 0]

C7_EnqueueIdempotent ==
    [][\A u \in Urls :
          add_to_queue(u) =>
              /\ Cardinality(RowsOf(scrape_queue', u)) = 1
              /\ u \notin claimed =>
                    \A i \in RowsOf(scrape_queue', u) :
                        /\ scrape_queue'[i].status = STATUS_PENDING
                        /\ scrape_queue'[i].retry_count = 0]_vars

\* C7, witness: a url was added again before any attempt and the queue holds
\* its one Pending row.
C7_Witness ==
    /\ add_result = STATUS_PENDING
    /\ claimed = {}
    /\ Len(scrape_queue) = 1
    /\ scrape_queue[1].status = STATUS_PENDING

\* C8: add_to_queue of a url that is present changes no row, whatever the
\* status of its row.
C8_EnqueuePresentIsNoOp ==
    [][\A u \in Urls :
          (add_to_queue(u) /\ RowsOf(scrape_queue, u) # {}) =>
              scrape_queue' = scrape_queue]_vars

\* C8, witness: add_to_queue has met a Completed row, which is still
\* Completed with the retry_count of its failed attempt.
C8_Witness ==
    /\ add_result = STATUS_COMPLETED
    /\ \E i \in DOMAIN scrape_queue :
          /\ scrape_queue[i].status = STATUS_COMPLETED
          /\ scrape_queue[i].retry_count = 1

\* C9: mark_url_completed of a url that is Processing raises completed by
\* exactly 1 and lowers processing by exactly 1 in get_progress, and leaves
\* pending, failed and total as they were.
C9_SuccessMovesOneCount ==
    [][\A w \in Workers :
          (/\ pc[w] = "mark" /\ entry[w] = "entry" /\ pc'[w] = "get_next_url"
           /\ StatusOf(scrape_queue, next_url[w][1]) = {STATUS_PROCESSING}) =>
              get_progress(scrape_queue') =
                  [get_progress(scrape_queue) EXCEPT !.completed = @ + 1,
                                                     !.processing = @ - 1]]_vars

\* C9, witness: one item has been reported Completed while another item is
\* Processing and a third status is present.
C9_Witness ==
    /\ CountStatus(scrape_queue, STATUS_COMPLETED) = 1
    /\ CountStatus(scrape_queue, STATUS_PROCESSING) = 1
    /\ \E w \in Workers : pc[w] = "get_next_url"

\* C10: reset_failed returns the number of Failed items, and afterwards each
\* of them is Pending with retry_count 0 and no error, so that no Failed
\* item remains.
C10_ResetFailed ==
    [][\A w \in Workers : retry_failed(w) =>
          /\ reset_count'[w] = CountStatus(scrape_queue, STATUS_FAILED)
          /\ \A i \in DOMAIN scrape_queue :
                scrape_queue[i].status = STATUS_FAILED =>
                    /\ scrape_queue'[i].status = STATUS_PENDING
                    /\ scrape_queue'[i].retry_count = 0
                    /\ scrape_queue'[i].error = NULL_TEXT
          /\ CountStatus(scrape_queue', STATUS_FAILED) = 0]_vars

\* C10, witness: reset_failed has returned 2 and both items, attempted
\* before, are Pending with retry_count 0 and no error.
C10_Witness ==
    /\ \E w \in Workers : pc[w] = "reset_done" /\ reset_count[w] = 2
    /\ Len(scrape_queue) = 2
    /\ \A i \in DOMAIN scrape_queue :
          /\ scrape_queue[i].status = STATUS_PENDING
          /\ scrape_queue[i].retry_count = 0
          /\ scrape_queue[i].error = NULL_TEXT
          /\ scrape_queue[i].last_attempted # NULL_TS

\* C11: the status of every row of scrape_queue is one of pending,
\* processing, completed, failed, whichever operation of the store has run.
C11_StatusInDomain ==
    \A i \in DOMAIN scrape_queue : scrape_queue[i].status \in Statuses

\* C12: mark_url_completed and mark_url_failed, reported for a url whose row
\* is Pending, Completed or Failed (not Processing), leave the status and the
\* retry_count of that row as they were.
C12_ReportOnlyWhenProcessing ==
    [][\A w \in Workers :
          ((report_success(w) \/ report_failure(w))
           /\ STATUS_PROCESSING \notin StatusOf(scrape_queue, next_url[w][1])) =>
              \A i \in RowsOf(scrape_queue, next_url[w][1]) :
                  /\ scrape_queue'[i].status = scrape_queue[i].status
                  /\ scrape_queue'[i].retry_count = scrape_queue[i].retry_count]_vars

\* C13: Completed is terminal: a row that is Completed is still Completed,
\* with the same retry_count, after every step of every worker, so it is
\* never claimed or attempted again.
C13_CompletedIsTerminal ==
    [][\A i \in DOMAIN scrape_queue :
          scrape_queue[i].status = STATUS_COMPLETED =>
              /\ i \in DOMAIN scrape_queue'
              /\ scrape_queue'[i].url = scrape_queue[i].url
              /\ scrape_queue'[i].status = STATUS_COMPLETED
              /\ scrape_queue'[i].retry_count = scrape_queue[i].retry_count]_vars

\* C14: process_letter never has more than CONCURRENCY tasks in flight: a
\* gather is handed at most CONCURRENCY tasks, and it is started only when
\* no task of the previous gather is still running.
C14_AtMostConcurrencyInFlight ==
    [][/\ InFlight' <= CONCURRENCY
       /\ (pl_gather \/ pl_final_gather) =>
              /\ InFlight = 0
              /\ Len(running') = tasks
              /\ tasks <= CONCURRENCY]_vars

\* C14, witness: a full batch of CONCURRENCY tasks is in flight while more
\* lemmas are waiting for the next batch.
C14_Witness ==
    /\ pl_pc = "gather"
    /\ InFlight = CONCURRENCY
    /\ pl_todo > 0

\* nothing is left to do in q: no row is Pending or Processing, and every
\* Failed row has used up its retries
DrainedClean(q) ==
    \A i \in DOMAIN q :
        /\ q[i].status \notin {STATUS_PENDING, STATUS_PROCESSING}
        /\ q[i].status = STATUS_FAILED => q[i].retry_count >= RETRY_LIMIT

\* C15: when a drain loop ends (resume_scraping breaks on None, run is left)
\* while no other loop is in the middle of an item, no row is Pending, no
\* row is Processing and every Failed row has retry_count >= 3.
C15_DrainEndsClean ==
    [][((run_progress \/ \E w \in Workers : get_next_url_none(w))
        /\ \A w \in Workers : pc[w] \in {"stopped", "get_next_url", "reset_done"}) =>
           DrainedClean(scrape_queue')]_vars

\* the url handed to scrape_lemma_page is that of a claimed (Processing) item
SpClaimed == IsUrl(sp_url) /\ STATUS_PROCESSING \in StatusOf(scrape_queue, sp_url[1])

\* C16: when a worker has caught an exception raised while it handled a
\* claimed item, the row of the item is Failed after the worker's report,
\* and resume_scraping goes on to its next get_next_url.
C16_ExceptionBecomesFailure ==
    [][/\ \A w \in Workers :
             (report_failure(w) /\ entry[w] = "raise") =>
                 /\ StatusOf(scrape_queue', next_url[w][1]) = {STATUS_FAILED}
                 /\ pc'[w] = "get_next_url"
       /\ (sp_parse_raises /\ SpClaimed) =>
             StatusOf(scrape_queue', sp_url[1]) = {STATUS_FAILED}]_vars

\* C17: when the parse of a claimed item yields nothing, the row of the item
\* is Failed with retry_count raised by 1 after the worker's report; and an
\* item is reported Completed only if a record of it is stored.
C17_EmptyParseIsFailure ==
    [][/\ \A w \in Workers :
             (report_failure(w) /\ entry[w] = "none"
              /\ STATUS_PROCESSING \in StatusOf(scrape_queue, next_url[w][1])) =>
                 \A i \in RowsOf(scrape_queue, next_url[w][1]) :
                     /\ scrape_queue'[i].status = STATUS_FAILED
                     /\ scrape_queue'[i].retry_count = scrape_queue[i].retry_count + 1
       /\ \A w \in Workers :
             report_success(w) => RecordsOf(lemmas, next_url[w][1]) # {}
       /\ (sp_parse_empty /\ SpClaimed) =>
             \A i \in RowsOf(scrape_queue, sp_url[1]) :
                 /\ scrape_queue'[i].status = STATUS_FAILED
                 /\ scrape_queue'[i].retry_count = scrape_queue[i].retry_count + 1]_vars

\* C18: a worker ends an attempt as a success (mark_url_completed in
\* resume_scraping, return True in scrape_lemma_page) only when the parsed
\* record of the item is in the lemmas table.
C18_SuccessOnlyAfterStore ==
    [][/\ \A w \in Workers :
             report_success(w) => LemmaRow(EntryOf(next_url[w][1])) \in lemmas
       /\ (sp_parse_entries /\ IsUrl(sp_url)) => LemmaRow(EntryOf(sp_url[1])) \in lemmas']_vars

\* C19: when get_page_content returns nothing for a claimed item,
\* scrape_lemma_page leaves the row Failed with an error text, returns
\* without parsing and writes nothing to lemmas.
C19_FetchFailureIsReported ==
    [][(sp_fetch_fails /\ SpClaimed) =>
          /\ \A i \in RowsOf(scrape_queue, sp_url[1]) :
                /\ scrape_queue'[i].status = STATUS_FAILED
                /\ scrape_queue'[i].error # NULL_TEXT
          /\ sp_pc' = "returned"
          /\ lemmas' = lemmas]_vars

\* C20: a row that is Failed with retry_count >= 3 is left as it is (still
\* Failed, same retry_count, hence not claimed) by every step other than
\* reset_failed, and after reset_failed it is eligible for get_next_url.
C20_ExhaustedStaysFailed ==
    [][\A i \in DOMAIN scrape_queue :
          (/\ scrape_queue[i].status = STATUS_FAILED
           /\ scrape_queue[i].retry_count >= RETRY_LIMIT) =>
              IF \E w \in Workers : retry_failed(w)
              THEN Eligible(scrape_queue'[i])
              ELSE /\ scrape_queue'[i].status = STATUS_FAILED
                   /\ scrape_queue'[i].retry_count = scrape_queue[i].retry_count]_vars

\* a Processing row whose url no running worker holds: its worker stopped
\* before reporting
Stale(i) ==
    /\ scrape_queue[i].status = STATUS_PROCESSING
    /\ \A w \in Workers : Holds(w) => next_url[w][1] # scrape_queue[i].url

\* C21: a Processing item left behind by a stopped worker stays Processing
\* and is not handed out by get_next_url, whatever step is taken.
C21_StaleProcessingNotReclaimed ==
    [][\A i \in DOMAIN scrape_queue :
          Stale(i) =>
              /\ scrape_queue'[i].status = STATUS_PROCESSING
              /\ \A w \in Workers :
                    get_next_url_update(w) => next_url[w][1] # scrape_queue[i].url]_vars

\* the row of the table that holds url
RowOf(q, url) == CHOOSE i \in DOMAIN q : q[i].url = url

\* C22: the row get_next_url selects is eligible, no eligible row has a
\* smaller retry_count, and among the eligible rows with that retry_count it
\* is the one that was enqueued first (rows are numbered in the order of
\* their insertion).
C22_SelectsSmallestRetryThenOldest ==
    [][\A w \in Workers :
          get_next_url_select(w) =>
              LET i == RowOf(scrape_queue, next_url'[w][1])
              IN  /\ Eligible(scrape_queue[i])
                  /\ \A j \in DOMAIN scrape_queue :
                        Eligible(scrape_queue[j]) =>
                            \/ scrape_queue[i].retry_count < scrape_queue[j].retry_count
                            \/ /\ scrape_queue[i].retry_count = scrape_queue[j].retry_count
                               /\ i <= j]_vars

\* C23: any two successive calls of session.get made through one scraper are
\* at least delay apart, the two requests of one get_lexicon_entry and the
\* repeated attempts of _make_request included.
C23_RequestsSpaced ==
    \A k \in 1..(Len(requests) - 1) : requests[k + 1] - requests[k] >= delay

\* the lemma of the running get_lexicon_entry call is in table lemmas
LemmaStored == gl_pc # "idle" /\ RecordsOf(lemmas, gl_lemma) # {}

NoneEligible(q) ==
    \A i \in DOMAIN q :
        /\ q[i].status # STATUS_PENDING
        /\ q[i].status = STATUS_FAILED => q[i].retry_count >= RETRY_LIMIT

\* C25: resume_scraping invoked on a queue without an eligible row ends at its
\* first get_next_url: it calls _process_url for no url and leaves every row of
\* scrape_queue (status and retry_count included) and table lemmas as they were.
C25_RerunIsNoOp ==
    [][\A w \in Workers :
          /\ (resume_scraping(w) /\ NoneEligible(scrape_queue)) =>
                UNCHANGED <<scrape_queue, lemmas>>
          /\ (Step(w) /\ pc[w] = "get_next_url" /\ fetched[w] = "no"
                      /\ NoneEligible(scrape_queue)) =>
                /\ pc'[w] = "stopped"
                /\ fetched'[w] = "no"
                /\ UNCHANGED <<scrape_queue, lemmas>>]_vars

C25_Witness ==
    /\ pc[1] = "stopped"
    /\ fetched[1] = "no"
    /\ Len(scrape_queue) = MaxUrls
    /\ NoneEligible(scrape_queue)
    /\ \E i \in DOMAIN scrape_queue : scrape_queue[i].status = STATUS_COMPLETED
    /\ \E i \in DOMAIN scrape_queue : scrape_queue[i].status = STATUS_FAILED

\* the rows of table lemmas stored under the key (lemma, language)
RowsOfKey(t, lemma, lang) == {r \in t : r.lemma = lemma /\ r.language = lang}

\* C26: add_lexicon_entry leaves exactly one row under the key of its entry,
\* holding the values just saved, and leaves the rows of the other keys alone;
\* a lookup of a lemma returns, for every key stored with that lemma, the
\* lemma, language and details saved under that key.
C26_UpsertByKey ==
    [][/\ \A e \in Entries :
            add_lexicon_entry_call(e) =>
                /\ RowsOfKey(lemmas', e.lemma, e.language) = {LemmaRow(e)}
                /\ \A r \in lemmas : (r.lemma # e.lemma \/ r.language # e.language) => r \in lemmas'
                /\ \A r \in lemmas' : r = LemmaRow(e) \/ r \in lemmas
       /\ \A lemma \in Keys :
            get_lexicon_entry_call(lemma) =>
                \A r \in lemmas :
                    r.lemma = lemma =>
                        /\ gl_result'.path = "existing"
                        /\ LemmaRow(gl_result'.entry[1]) = r]_vars

\* C27: a row whose status is not Processing has processing_started NULL, and
\* the row of the url that get_next_url returned to a worker carries the
\* processing_started stamped by get_next_url while the worker works on it.
C27_ProcessingStartedFollowsStatus ==
    /\ \A i \in DOMAIN scrape_queue :
          scrape_queue[i].status # STATUS_PROCESSING =>
              scrape_queue[i].processing_started = NULL_TS
    /\ Holds(1) =>
          \A i \in RowsOf(scrape_queue, next_url[1][1]) :
              /\ scrape_queue[i].status = STATUS_PROCESSING
              /\ scrape_queue[i].processing_started # NULL_TS
              /\ scrape_queue[i].processing_started <= clock

C27_Witness ==
    /\ Holds(1)
    /\ \E i \in RowsOf(scrape_queue, next_url[1][1]) :
          scrape_queue[i].processing_started = MaxClock
    /\ \E i \in DOMAIN scrape_queue :
          /\ scrape_queue[i].status = STATUS_COMPLETED
          /\ scrape_queue[i].processing_started = NULL_TS

\* C28: a row that is Completed or Pending has error NULL, and a row has an
\* error only if mark_url_failed has reported a failure of its url since the
\* row was created or last reset.
C28_NoErrorUnlessFailed ==
    \A i \in DOMAIN scrape_queue :
        /\ scrape_queue[i].status \in {STATUS_COMPLETED, STATUS_PENDING} =>
              scrape_queue[i].error = NULL_TEXT
        /\ scrape_queue[i].error # NULL_TEXT =>
              /\ fail_count[scrape_queue[i].url] > 0
              /\ scrape_queue[i].error \in {ERR_FALSY, ERR_RAISED}

C28_Witness ==
    /\ \E i \in DOMAIN scrape_queue :
          /\ scrape_queue[i].status = STATUS_COMPLETED
          /\ scrape_queue[i].retry_count > 0
          /\ scrape_queue[i].error = NULL_TEXT
    /\ \E i \in DOMAIN scrape_queue :
          /\ scrape_queue[i].status = STATUS_PENDING
          /\ claimed = Urls
          /\ scrape_queue[i].error = NULL_TEXT

\* a worker reports a failure of url in this step
FailureReported(url) == \E w \in Workers : report_failure(w) /\ next_url[w][1] = url

\* reset_failed runs in this step
ResetRuns == \E w \in Workers : retry_failed(w)

\* C29: retry_count is never negative; mark_url_failed raises the count of
\* its url by exactly 1, reset_failed sets the count of every Failed row to 0,
\* and no other step (add_to_queue, get_next_url, mark_url_completed among
\* them) changes the retry_count of any row.
C29_RetryCountChanges ==
    [][\A i \in DOMAIN scrape_queue :
          LET before == scrape_queue[i]
              after  == scrape_queue'[i]
          IN  /\ after.retry_count >= 0
              /\ FailureReported(before.url) => after.retry_count = before.retry_count + 1
              /\ (ResetRuns /\ before.status = STATUS_FAILED) => after.retry_count = 0
              /\ after.retry_count # before.retry_count =>
                    \/ FailureReported(before.url)
                    \/ ResetRuns /\ before.status = STATUS_FAILED]_vars

C29_Witness ==
    /\ pc[1] = "reset_done"
    /\ reset_count[1] > 0
    /\ \E i \in DOMAIN scrape_queue :
          /\ scrape_queue[i].status = STATUS_PENDING
          /\ scrape_queue[i].retry_count = 0
          /\ scrape_queue[i].url \in claimed
    /\ \E i \in DOMAIN scrape_queue :
          /\ scrape_queue[i].status = STATUS_COMPLETED
          /\ scrape_queue[i].retry_count > 0

\* the urls that have a row in scrape_queue
QueuedUrls(q) == {q[i].url : i \in DOMAIN q}

\* C30: no row of scrape_queue is ever deleted: the urls in the queue are
\* exactly the urls that were ever enqueued, and the total of get_progress is
\* the number of those urls.
C30_RowsNeverDeleted ==
    /\ QueuedUrls(scrape_queue) = enqueued
    /\ get_progress(scrape_queue).total = Cardinality(enqueued)

C30_Witness ==
    /\ get_progress(scrape_queue).total = MaxUrls
    /\ add_result = STATUS_COMPLETED
    /\ get_progress(scrape_queue).completed = 1
    /\ get_progress(scrape_queue).failed = 1
    /\ \E i \in DOMAIN scrape_queue : scrape_queue[i].retry_count = RETRY_LIMIT

\* C31: the dict get_progress returns holds the counts of the table as it is
\* at the time of the call, and its total is the sum of its pending,
\* processing, completed and failed.
C31_SnapshotAddsUp ==
    [][get_progress_call =>
          /\ progress' = get_progress(scrape_queue)
          /\ progress'.total = progress'.pending + progress'.processing
                                 + progress'.completed + progress'.failed]_vars

\* a row is Pending, or Failed with a retry left
SomeEligible(q) == ~NoneEligible(q)

\* C36: resume_scraping leaves its loop at get_next_url only when no row is
\* eligible, and a get_next_url that fails with a store error leaves every row
\* as it was, none marked Processing by it.
C36_StopsOnlyWhenDrained ==
    [][\A w \in Workers :
          /\ (pc[w] \in {"get_next_url", "update"} /\ pc'[w] = "stopped") =>
                NoneEligible(scrape_queue)
          /\ get_next_url_error(w) => scrape_queue' = scrape_queue]_vars

\* C32: get_next_url returns None only when no row is eligible, and then
\* changes no row; when no row is eligible it returns None; and the url it
\* returns is that of a row that was eligible, the only row the call changes,
\* which is Processing afterwards.
C32_NoneIffNoEligible ==
    [][\A w \in Workers :
          /\ (pc[w] \in {"get_next_url", "update"} /\ pc'[w] = "stopped") =>
                /\ NoneEligible(scrape_queue)
                /\ scrape_queue' = scrape_queue
          /\ (pc[w] = "get_next_url" /\ pc'[w] # pc[w] /\ NoneEligible(scrape_queue)) =>
                pc'[w] = "stopped"
          /\ get_next_url_update(w) =>
                LET i == RowOf(scrape_queue, next_url[w][1])
                IN  /\ SomeEligible(<<scrape_queue[i]>>)
                    /\ scrape_queue'[i].status = STATUS_PROCESSING
                    /\ \A j \in DOMAIN scrape_queue : j # i => scrape_queue'[j] = scrape_queue[j]]_vars

\* C33: the SELECT of get_next_url changes no row, and its UPDATE changes the
\* status and processing_started of the row it returns and nothing else: the
\* retry_count and error of that row, its other columns and all other rows
\* stay as they were.
C33_ClaimChangesOnlyItsRow ==
    [][\A w \in Workers :
          /\ (get_next_url_select(w) \/ get_next_url_none(w)) => scrape_queue' = scrape_queue
          /\ get_next_url_update(w) =>
                LET i == RowOf(scrape_queue, next_url[w][1])
                IN  /\ DOMAIN scrape_queue' = DOMAIN scrape_queue
                    /\ scrape_queue'[i] =
                          [scrape_queue[i] EXCEPT
                              !.status = STATUS_PROCESSING,
                              !.processing_started = scrape_queue'[i].processing_started]
                    /\ \A j \in DOMAIN scrape_queue : j # i => scrape_queue'[j] = scrape_queue[j]]_vars

C33_Witness ==
    /\ pc[1] = "process"
    /\ \E i \in RowsOf(scrape_queue, next_url[1][1]) :
          /\ scrape_queue[i].status = STATUS_PROCESSING
          /\ scrape_queue[i].error = ERR_RAISED
          /\ scrape_queue[i].retry_count = 2
    /\ \E j \in DOMAIN scrape_queue : scrape_queue[j].status = STATUS_FAILED


\* C34: between two reset_failed calls (or from creation) every key is
\* claimed at most RETRY_LIMIT (3) times, whatever the interleaving of the
\* workers and the outcomes of the attempts.
C34_ClaimsBounded ==
    \A u \in DOMAIN claim_count : claim_count[u] <= RETRY_LIMIT

\* a key that get_next_url has handed out more than RETRY_LIMIT times since
\* the last reset_failed call
C34_Counterexample ==
    \E u \in DOMAIN claim_count : claim_count[u] > RETRY_LIMIT


\* C35: reset_failed changes only rows that are Failed: every Pending,
\* Processing and Completed row keeps all its columns (status, retry_count
\* and error among them), no row is added or removed, and the lemmas table
\* is not touched.
C35_ResetChangesOnlyFailed ==
    [][ResetRuns =>
          /\ DOMAIN scrape_queue' = DOMAIN scrape_queue
          /\ \A i \in DOMAIN scrape_queue :
                scrape_queue[i].status # STATUS_FAILED =>
                    scrape_queue'[i] = scrape_queue[i]
          /\ lemmas' = lemmas]_vars

\* C35, witness: reset_failed has reset one row while a worker holds the
\* other: that row is still Processing, with the retry_count and the error
\* of its earlier failure.
C35_Witness ==
    /\ \E w \in Workers : pc[w] = "reset_done" /\ reset_count[w] = 1
    /\ \E i \in DOMAIN scrape_queue :
          /\ scrape_queue[i].status = STATUS_PROCESSING
          /\ scrape_queue[i].retry_count > 0
          /\ scrape_queue[i].error # NULL_TEXT
    /\ \E i \in DOMAIN scrape_queue :
          /\ scrape_queue[i].status = STATUS_PENDING
          /\ scrape_queue[i].retry_count = 0
          /\ scrape_queue[i].last_attempted # NULL_TS


\* C37 as claimed: one _make_request call issues at most MAX_RETRIES (3)
\* requests, returns the first 200 answer without a further request, and
\* returns None only after all 3 attempts have failed.
C37_MakeRequestRetries ==
    /\ mr_call.requests <= MAX_RETRIES
    /\ mr_call.last = "200" =>
          /\ mr_call.result # "pending"
          /\ mr_call.requests = mr_call.failed + 1
    /\ mr_call.result = "None" => mr_call.failed = MAX_RETRIES

\* C37, amended: one _make_request call issues at most MAX_RETRIES (3)
\* requests, returns the body of the first 200 answer without a further
\* request, and returns None only after all 3 attempts have failed or when
\* the body of that first 200 answer is JSON null.
C37_MakeRequestRetriesOrNull ==
    /\ mr_call.requests <= MAX_RETRIES
    /\ mr_call.last = "200" =>
          /\ mr_call.result # "pending"
          /\ mr_call.requests = mr_call.failed + 1
    /\ mr_call.result = "None" =>
          \/ mr_call.failed = MAX_RETRIES /\ mr_call.requests = MAX_RETRIES
          \/ mr_call.last = "200"
    /\ mr_call.result \in {"data", "falsy"} => mr_call.last = "200"

\* C37, witness: after checkLang was answered, the request for the details
\* was answered three times with a status other than 200, and _make_request
\* has slept for the third time and returned None.
C37_Witness ==
    /\ gl_pc = "idle"
    /\ gl_stage = "detail"
    /\ mr_call = [requests |-> MAX_RETRIES, failed |-> MAX_RETRIES,
                  last |-> "status", result |-> "None"]


\* C38: process_letter invokes process_lemma exactly once for every lemma
\* that discover_lemmas returned, whatever their number: never twice, and
\* once for each by the time process_letter is over; the pair it returns has
\* completed <= total, and completed is the number of lemmas for which an
\* entry was obtained.
C38_EveryLemmaOnce ==
    /\ \A l \in DOMAIN pl_invoked : pl_invoked[l] <= 1
    /\ pl_pc \in {"idle", "raised"} =>
          \A l \in 1..pl_total : pl_invoked[l] = 1
    /\ pl_pc = "idle" =>
          /\ pl_completed <= pl_total
          /\ pl_completed = Cardinality(pl_got)
          /\ pl_got \subseteq 1..pl_total

====
